---- MODULE Spec2Model ----
(***************************************************************************)
(* Model of package svcerr (src/err/err.go): constructors of gRPC status   *)
(* errors, Wrap, and the translators ConvHTTP, IsValid, String and Code.   *)
(*                                                                         *)
(* Texts are sequences of one-character strings, so that formatting       *)
(* (fmt.Sprintf, fmt.Errorf, status.Errorf) is modelled by what it does   *)
(* to the characters.  The grpc status library is modelled as of the      *)
(* release the package's Example output pins (golang/protobuf text        *)
(* format "name:<...> "): status.FromError looks at the error itself and  *)
(* does not unwrap.                                                        *)
(***************************************************************************)
EXTENDS Integers, Sequences, FiniteSets, TLC

(* ------------------------------ bounds --------------------------------- *)
MaxLen == 2          \* longest message passed to a constructor
MaxDetails == 2      \* longest detail list passed to a constructor
MaxWrap == 1         \* how many times an error is wrapped
MaxTime == 1         \* readings of the wall clock
MaxForeignCode == 18 \* largest code of a status error made outside the package

(* ------------------------------ texts ---------------------------------- *)
\* characters of messages: a plain letter and the format directive character
Chars == {"a", "%"}

RECURSIVE TextsOfLen(_)
TextsOfLen(n) ==
  IF n = 0 THEN {<<>>}
  ELSE {<<c>> \o t : c \in Chars, t \in TextsOfLen(n - 1)}

Texts(n) == UNION {TextsOfLen(k) : k \in 0..n}

\* strconv.FormatInt(n, 10) for n >= 0
Digit(n) == CASE n = 0 -> "0" [] n = 1 -> "1" [] n = 2 -> "2" [] n = 3 -> "3"
              [] n = 4 -> "4" [] n = 5 -> "5" [] n = 6 -> "6" [] n = 7 -> "7"
              [] n = 8 -> "8" [] n = 9 -> "9"

RECURSIVE FormatInt(_)
FormatInt(n) ==
  IF n < 10 THEN <<Digit(n)>> ELSE FormatInt(n \div 10) \o <<Digit(n % 10)>>

(* ------------------------------ codes ---------------------------------- *)
\* google.golang.org/grpc/codes: the 17 defined codes
OK == 0
Canceled == 1
Unknown == 2
InvalidArgument == 3
DeadlineExceeded == 4
NotFound == 5
AlreadyExists == 6
PermissionDenied == 7
ResourceExhausted == 8
FailedPrecondition == 9
Aborted == 10
OutOfRange == 11
Unimplemented == 12
Internal == 13
Unavailable == 14
DataLoss == 15
Unauthenticated == 16

\* net/http status constants used by the package
StatusInternalServerError == 500

\* codes.Code.String(): the canonical name, "Code(n)" for an undefined code
CodeString(c) ==
  CASE c = 0 -> <<"O", "K">>
    [] c = 1 -> <<"C", "a", "n", "c", "e", "l", "e", "d">>
    [] c = 2 -> <<"U", "n", "k", "n", "o", "w", "n">>
    [] c = 3 -> <<"I", "n", "v", "a", "l", "i", "d", "A", "r", "g", "u", "m", "e", "n", "t">>
    [] c = 4 -> <<"D", "e", "a", "d", "l", "i", "n", "e", "E", "x", "c", "e", "e", "d", "e", "d">>
    [] c = 5 -> <<"N", "o", "t", "F", "o", "u", "n", "d">>
    [] c = 6 -> <<"A", "l", "r", "e", "a", "d", "y", "E", "x", "i", "s", "t", "s">>
    [] c = 7 -> <<"P", "e", "r", "m", "i", "s", "s", "i", "o", "n", "D", "e", "n", "i", "e", "d">>
    [] c = 8 -> <<"R", "e", "s", "o", "u", "r", "c", "e", "E", "x", "h", "a", "u", "s", "t", "e", "d">>
    [] c = 9 -> <<"F", "a", "i", "l", "e", "d", "P", "r", "e", "c", "o", "n", "d", "i", "t", "i", "o", "n">>
    [] c = 10 -> <<"A", "b", "o", "r", "t", "e", "d">>
    [] c = 11 -> <<"O", "u", "t", "O", "f", "R", "a", "n", "g", "e">>
    [] c = 12 -> <<"U", "n", "i", "m", "p", "l", "e", "m", "e", "n", "t", "e", "d">>
    [] c = 13 -> <<"I", "n", "t", "e", "r", "n", "a", "l">>
    [] c = 14 -> <<"U", "n", "a", "v", "a", "i", "l", "a", "b", "l", "e">>
    [] c = 15 -> <<"D", "a", "t", "a", "L", "o", "s", "s">>
    [] c = 16 -> <<"U", "n", "a", "u", "t", "h", "e", "n", "t", "i", "c", "a", "t", "e", "d">>
    [] OTHER -> <<"C", "o", "d", "e", "(">> \o FormatInt(c) \o <<")">>

\* httpMap with Canceled taken for a client timeout (408)
httpMap_canceled408 ==
  (OK :> 200) @@ (Canceled :> 408) @@ (Unknown :> 500) @@
  (InvalidArgument :> 400) @@ (DeadlineExceeded :> 504) @@ (NotFound :> 404) @@
  (AlreadyExists :> 409) @@ (PermissionDenied :> 403) @@
  (ResourceExhausted :> 429) @@ (FailedPrecondition :> 400) @@
  (Aborted :> 409) @@ (OutOfRange :> 400) @@ (Unimplemented :> 501) @@
  (Internal :> 500) @@ (Unavailable :> 503) @@ (DataLoss :> 500) @@
  (Unauthenticated :> 401)

\* httpMap: grpc error codes to http codes
httpMap ==
  (OK :> 200) @@ (Canceled :> 499) @@ (Unknown :> 500) @@
  (InvalidArgument :> 400) @@ (DeadlineExceeded :> 504) @@ (NotFound :> 404) @@
  (AlreadyExists :> 409) @@ (PermissionDenied :> 403) @@
  (ResourceExhausted :> 429) @@ (FailedPrecondition :> 400) @@
  (Aborted :> 409) @@ (OutOfRange :> 400) @@ (Unimplemented :> 501) @@
  (Internal :> 500) @@ (Unavailable :> 503) @@ (DataLoss :> 500) @@
  (Unauthenticated :> 401)

\* httpMap[c] as Go evaluates it: the zero value for a key that is absent
httpMapLookup(c) == IF c \in DOMAIN httpMap THEN httpMap[c] ELSE 0

(* --------------------------- detail records ---------------------------- *)
\* proto.Message values passed as details: two well-formed records of the
\* errdetails vocabulary and one that ptypes.MarshalAny rejects
DetailRecords ==
  { [type |-> "BadRequest", wellFormed |-> TRUE],
    [type |-> "RetryInfo",  wellFormed |-> TRUE],
    [type |-> "BadRequest", wellFormed |-> FALSE] }

RECURSIVE DetailListsOfLen(_)
DetailListsOfLen(n) ==
  IF n = 0 THEN {<<>>}
  ELSE {<<d>> \o l : d \in DetailRecords, l \in DetailListsOfLen(n - 1)}

DetailLists == UNION {DetailListsOfLen(k) : k \in 0..MaxDetails}

\* proto.Message.String(): the compact text of a record, which ends in a space
DetailString(d) ==
  IF d.type = "BadRequest" THEN <<"b", ":", "1", " ">> ELSE <<"r", ":", "2", " ">>

(* ------------------------------ errors --------------------------------- *)
\* An error value.  kind "status" is *status.statusError (it has GRPCStatus),
\* kind "plain" is errors.New's value, kind "wrap" is fmt.Errorf's value.
NilErr == [kind |-> "nil", code |-> OK, msg |-> <<>>, details |-> <<>>]

StatusErr(c, m, ds) == [kind |-> "status", code |-> c, msg |-> m, details |-> ds]

\* errors.New(text)
ErrorsNew(text) == [kind |-> "plain", code |-> OK, msg |-> text, details |-> <<>>]

\* err.Error()
ErrorText(err) ==
  IF err.kind = "status"
  THEN <<"r", "p", "c", " ", "e", "r", "r", "o", "r", ":", " ",
         "c", "o", "d", "e", " ", "=", " ">> \o CodeString(err.code)
       \o <<" ", "d", "e", "s", "c", " ", "=", " ">> \o err.msg
  ELSE err.msg

\* fmt.Sprintf(format) with no operands: "%%" is "%", a verb has no operand,
\* a trailing "%" has no verb.  (Chars holds no flag, width or index character.)
RECURSIVE SprintfNoArgs(_)
SprintfNoArgs(format) ==
  IF format = <<>> THEN <<>>
  ELSE IF Head(format) /= "%" THEN <<Head(format)>> \o SprintfNoArgs(Tail(format))
  ELSE IF Len(format) = 1 THEN <<"%", "!", "(", "N", "O", "V", "E", "R", "B", ")">>
  ELSE IF format[2] = "%"
       THEN <<"%">> \o SprintfNoArgs(SubSeq(format, 3, Len(format)))
  ELSE <<"%", "!", format[2], "(", "M", "I", "S", "S", "I", "N", "G", ")">>
       \o SprintfNoArgs(SubSeq(format, 3, Len(format)))

\* status.Errorf(c, format): Err(c, fmt.Sprintf(format)); nil for codes.OK
StatusErrorf(c, format) ==
  IF c = OK THEN NilErr ELSE StatusErr(c, SprintfNoArgs(format), <<>>)

\* (*Status).WithDetails: fails for codes.OK and when a detail cannot be
\* marshalled; otherwise a copy of the status with the details appended
WithDetails(s, details) ==
  IF s.code = OK \/ \E i \in 1..Len(details) : ~details[i].wellFormed
  THEN [ok |-> FALSE, st |-> s]
  ELSE [ok |-> TRUE,
        st |-> [code |-> s.code, msg |-> s.msg, details |-> s.details \o details]]

\* status.FromError: (nil, true) for nil; the error's status for an error
\* that has GRPCStatus; otherwise (New(codes.Unknown, err.Error()), false).
\* The getters of a nil *Status give OK, "" and no details.
FromError(err) ==
  CASE err.kind = "nil" ->
         [ok |-> TRUE, st |-> [code |-> OK, msg |-> <<>>, details |-> <<>>]]
    [] err.kind = "status" ->
         [ok |-> TRUE,
          st |-> [code |-> err.code, msg |-> err.msg, details |-> err.details]]
    [] OTHER ->
         [ok |-> FALSE,
          st |-> [code |-> Unknown, msg |-> ErrorText(err), details |-> <<>>]]

\* (*Status).Err(): nil for codes.OK
StatusToErr(s) ==
  IF s.code = OK THEN NilErr ELSE StatusErr(s.code, s.msg, s.details)

\* fmt's %s of (*Status).Details(): "[" elements separated by a space "]"
RECURSIVE JoinDetails(_)
JoinDetails(ds) ==
  IF ds = <<>> THEN <<>>
  ELSE IF Len(ds) = 1 THEN DetailString(ds[1])
  ELSE DetailString(ds[1]) \o <<" ">> \o JoinDetails(Tail(ds))

FormatDetails(ds) == <<"[">> \o JoinDetails(ds) \o <<"]">>

(* --------------------------- the package ------------------------------- *)
\* Wrap that keeps the status of the wrapped error:
\* status.Errorf(Code(err), "%s:(%s)", text, err)
Wrap_keepStatus(text, err) ==
  IF err.kind = "status"
  THEN StatusErr(err.code, text \o <<":", "(">> \o ErrorText(err) \o <<")">>,
                 err.details)
  ELSE [kind |-> "wrap", code |-> OK,
        msg |-> text \o <<":", "(">>
                \o (IF err.kind = "nil"
                    THEN <<"%", "!", "w", "(", "<", "n", "i", "l", ">", ")">>
                    ELSE ErrorText(err))
                \o <<")">>,
        details |-> <<>>]

\* Wrap with the text spliced into the format: fmt.Errorf(text+":(%w)", err)
Wrap_textAsFormat(text, err) ==
  [kind |-> "wrap", code |-> OK,
   msg |-> SprintfNoArgs(text) \o <<":", "(">>
           \o (IF err.kind = "nil"
               THEN <<"%", "!", "w", "(", "<", "n", "i", "l", ">", ")">>
               ELSE ErrorText(err))
           \o <<")">>,
   details |-> <<>>]

\* Wrap: fmt.Errorf("%s:(%w)", text, err)
Wrap(text, err) ==
  [kind |-> "wrap", code |-> OK,
   msg |-> text \o <<":", "(">>
           \o (IF err.kind = "nil"
               THEN <<"%", "!", "w", "(", "<", "n", "i", "l", ">", ")">>
               ELSE ErrorText(err))
           \o <<")">>,
   details |-> <<>>]

\* newErr that attaches only the first detail: s.WithDetails(details[0])
newErr_firstDetail(c, message, details) ==
  LET err == StatusErrorf(c, message) IN
  IF Len(details) /= 0
  THEN LET s == FromError(err).st
           r == WithDetails(s, <<details[1]>>)
       IN IF ~r.ok THEN err ELSE StatusToErr(r.st)
  ELSE err

\* newErr: creates new error and adds message details
newErr(c, message, details) ==
  LET err == StatusErrorf(c, message) IN
  IF Len(details) /= 0
  THEN LET s == FromError(err).st
           r == WithDetails(s, details)
       IN IF ~r.ok THEN err ELSE StatusToErr(r.st)
  ELSE err

InvalidArgs(msg, details) == newErr(InvalidArgument, msg, details)
InternalErr(msg, details) == newErr(Internal, msg, details)
UnknownErr(msg, details) == newErr(Unknown, msg, details)
NotFoundErr(msg, details) == newErr(NotFound, msg, details)
PermDenied(msg, details) == newErr(PermissionDenied, msg, details)
CanceledErr(msg, details) == newErr(Canceled, msg, details)
DeadlineExceededErr(msg, details) == newErr(DeadlineExceeded, msg, details)
AlreadyExistsErr(msg, details) == newErr(AlreadyExists, msg, details)
ResourceExhaustedErr(msg, details) == newErr(ResourceExhausted, msg, details)
FailedPreCondition(msg, details) == newErr(FailedPrecondition, msg, details)
AbortedErr(msg, details) == newErr(Aborted, msg, details)
OutOfRangeErr(msg, details) == newErr(OutOfRange, msg, details)
UnimplementedErr(msg, details) == newErr(Unimplemented, msg, details)
DataLossErr(msg, details) == newErr(DataLoss, msg, details)
UnavailableErr(msg, details) == newErr(Unavailable, msg, details)
UnauthenticatedErr(msg, details) == newErr(Unauthenticated, msg, details)

\* the 16 exported constructors, by name
Constructors ==
  {"InvalidArgs", "InternalErr", "Unknown", "NotFound", "PermDenied",
   "Canceled", "DeadlineExceeded", "AlreadyExists", "ResourceExhausted",
   "FailedPreCondition", "Aborted", "OutOfRange", "Unimplemented",
   "DataLoss", "Unavailable", "Unauthenticated"}

CallConstructor(fn, msg, details) ==
  CASE fn = "InvalidArgs" -> InvalidArgs(msg, details)
    [] fn = "InternalErr" -> InternalErr(msg, details)
    [] fn = "Unknown" -> UnknownErr(msg, details)
    [] fn = "NotFound" -> NotFoundErr(msg, details)
    [] fn = "PermDenied" -> PermDenied(msg, details)
    [] fn = "Canceled" -> CanceledErr(msg, details)
    [] fn = "DeadlineExceeded" -> DeadlineExceededErr(msg, details)
    [] fn = "AlreadyExists" -> AlreadyExistsErr(msg, details)
    [] fn = "ResourceExhausted" -> ResourceExhaustedErr(msg, details)
    [] fn = "FailedPreCondition" -> FailedPreCondition(msg, details)
    [] fn = "Aborted" -> AbortedErr(msg, details)
    [] fn = "OutOfRange" -> OutOfRangeErr(msg, details)
    [] fn = "Unimplemented" -> UnimplementedErr(msg, details)
    [] fn = "DataLoss" -> DataLossErr(msg, details)
    [] fn = "Unavailable" -> UnavailableErr(msg, details)
    [] fn = "Unauthenticated" -> UnauthenticatedErr(msg, details)

\* RestErr: the zero value
ZeroRestErr == [Code |-> 0, Desc |-> <<>>, Message |-> <<>>, Details |-> <<>>]

\* ConvHTTP whose fallback fills Message instead of Desc
ConvHTTP_fallbackMessage(err) ==
  LET r == FromError(err) IN
  IF r.ok
  THEN [Code |-> httpMapLookup(r.st.code),
        Desc |-> CodeString(r.st.code),
        Message |-> r.st.msg,
        Details |-> FormatDetails(r.st.details)]
  ELSE [Code |-> StatusInternalServerError,
        Desc |-> <<>>,
        Message |-> ErrorText(err),
        Details |-> <<>>]

\* ConvHTTP: converts grpc error into Http Error structure (the Rest field)
ConvHTTP(err) ==
  LET r == FromError(err) IN
  IF r.ok
  THEN [Code |-> httpMapLookup(r.st.code),
        Desc |-> CodeString(r.st.code),
        Message |-> r.st.msg,
        Details |-> FormatDetails(r.st.details)]
  ELSE [Code |-> StatusInternalServerError,
        Desc |-> ErrorText(err),
        Message |-> <<>>,
        Details |-> <<>>]

\* IsValid that only tests for nil: return err != nil
IsValid_notNil(err) == err.kind /= "nil"

\* IsValid: true if error is of rpc status type
IsValid(err) == FromError(err).ok

\* String that formats the status whether or not FromError succeeded
String_alwaysFormat(err) ==
  LET r == FromError(err) IN
  <<"C", "o", "d", "e", " ", "=", " ">> \o CodeString(r.st.code)
  \o <<",", " ", "M", "e", "s", "s", "a", "g", "e", " ", "=", " ">> \o r.st.msg
  \o <<",", " ", "D", "e", "t", "a", "i", "l", "s", " ", "=", " ">>
  \o FormatDetails(r.st.details)

\* String: string representation of rpc status error structure
String(err) ==
  LET r == FromError(err) IN
  IF r.ok
  THEN <<"C", "o", "d", "e", " ", "=", " ">> \o CodeString(r.st.code)
       \o <<",", " ", "M", "e", "s", "s", "a", "g", "e", " ", "=", " ">> \o r.st.msg
       \o <<",", " ", "D", "e", "t", "a", "i", "l", "s", " ", "=", " ">>
       \o FormatDetails(r.st.details)
  ELSE r.st.msg

\* Code with the test of ok inverted
Code_okInverted(err) ==
  LET r == FromError(err) IN
  IF ~r.ok THEN r.st.code ELSE Unknown

\* Code: internal code from error
Code(err) ==
  LET r == FromError(err) IN
  IF r.ok THEN r.st.code ELSE Unknown

(* --------------------------- state machine ----------------------------- *)
VARIABLES
  pc,        \* "start": no error yet; "made": an error is held; "called": inspected
  err,       \* the error value the caller holds
  made,      \* how the error was first produced
  inner,     \* the error handed to the last Wrap
  wrapText,  \* the text handed to the last Wrap
  wraps,     \* how many times the error was wrapped
  op,        \* the translator called last
  se,        \* ConvHTTP's result: Rest and LocalTime
  valid,     \* IsValid's result
  str,       \* String's result
  code       \* Code's result

vars == <<pc, err, made, inner, wrapText, wraps, op, se, valid, str, code>>

NotMade == [by |-> "none", fn |-> "", c |-> OK, msg |-> <<>>, details |-> <<>>]

Init ==
  /\ pc = "start"
  /\ err = NilErr
  /\ made = NotMade
  /\ inner = NilErr
  /\ wrapText = <<>>
  /\ wraps = 0
  /\ op = "none"
  /\ se = [Rest |-> ZeroRestErr, LocalTime |-> 0]
  /\ valid = FALSE
  /\ str = <<>>
  /\ code = OK

\* one of the 16 constructors is called
Construct ==
  /\ pc = "start"
  /\ \E fn \in Constructors, msg \in Texts(MaxLen), details \in DetailLists :
       /\ err' = CallConstructor(fn, msg, details)
       /\ made' = [by |-> "constructor", fn |-> fn, c |-> OK,
                   msg |-> msg, details |-> details]
  /\ pc' = "made"
  /\ UNCHANGED <<inner, wrapText, wraps, op, se, valid, str, code>>

\* the caller holds a plain textual error, errors.New(text)
PlainError ==
  /\ pc = "start"
  /\ \E text \in Texts(MaxLen) :
       /\ err' = ErrorsNew(text)
       /\ made' = [by |-> "errors.New", fn |-> "", c |-> OK,
                   msg |-> text, details |-> <<>>]
  /\ pc' = "made"
  /\ UNCHANGED <<inner, wrapText, wraps, op, se, valid, str, code>>

\* the caller holds a status error made outside the package, of any code
ForeignStatus ==
  /\ pc = "start"
  /\ \E c \in 0..MaxForeignCode, msg \in Texts(1) :
       /\ err' = StatusErr(c, msg, <<>>)
       /\ made' = [by |-> "status", fn |-> "", c |-> c,
                   msg |-> msg, details |-> <<>>]
  /\ pc' = "made"
  /\ UNCHANGED <<inner, wrapText, wraps, op, se, valid, str, code>>

\* Wrap(text, err)
DoWrap ==
  /\ pc \in {"start", "made"}
  /\ wraps < MaxWrap
  /\ \E text \in Texts(1) :
       /\ err' = Wrap(text, err)
       /\ wrapText' = text
  /\ inner' = err
  /\ wraps' = wraps + 1
  /\ pc' = "made"
  /\ UNCHANGED <<made, op, se, valid, str, code>>

\* ConvHTTP(err)
DoConvHTTP ==
  /\ pc \in {"start", "made"}
  /\ \E now \in 0..MaxTime :
       se' = [Rest |-> ConvHTTP(err), LocalTime |-> now]
  /\ op' = "ConvHTTP"
  /\ pc' = "called"
  /\ UNCHANGED <<err, made, inner, wrapText, wraps, valid, str, code>>

\* IsValid(err)
DoIsValid ==
  /\ pc \in {"start", "made"}
  /\ valid' = IsValid(err)
  /\ op' = "IsValid"
  /\ pc' = "called"
  /\ UNCHANGED <<err, made, inner, wrapText, wraps, se, str, code>>

\* String(err)
DoString ==
  /\ pc \in {"start", "made"}
  /\ str' = String(err)
  /\ op' = "String"
  /\ pc' = "called"
  /\ UNCHANGED <<err, made, inner, wrapText, wraps, se, valid, code>>

\* Code(err)
DoCode ==
  /\ pc \in {"start", "made"}
  /\ code' = Code(err)
  /\ op' = "Code"
  /\ pc' = "called"
  /\ UNCHANGED <<err, made, inner, wrapText, wraps, se, valid, str>>

Next ==
  \/ Construct
  \/ PlainError
  \/ ForeignStatus
  \/ DoWrap
  \/ DoConvHTTP
  \/ DoIsValid
  \/ DoString
  \/ DoCode

Spec == Init /\ [][Next]_vars

(* ------------------------------ claims --------------------------------- *)
\* the status kind each constructor is documented to produce
BoundKind(fn) ==
  CASE fn = "InvalidArgs" -> InvalidArgument
    [] fn = "InternalErr" -> Internal
    [] fn = "Unknown" -> Unknown
    [] fn = "NotFound" -> NotFound
    [] fn = "PermDenied" -> PermissionDenied
    [] fn = "Canceled" -> Canceled
    [] fn = "DeadlineExceeded" -> DeadlineExceeded
    [] fn = "AlreadyExists" -> AlreadyExists
    [] fn = "ResourceExhausted" -> ResourceExhausted
    [] fn = "FailedPreCondition" -> FailedPrecondition
    [] fn = "Aborted" -> Aborted
    [] fn = "OutOfRange" -> OutOfRange
    [] fn = "Unimplemented" -> Unimplemented
    [] fn = "DataLoss" -> DataLoss
    [] fn = "Unavailable" -> Unavailable
    [] fn = "Unauthenticated" -> Unauthenticated

\* the numeric mapping table as the specification tabulates it
TabulatedHTTP(c) ==
  CASE c = OK -> 200
    [] c = Canceled -> 499
    [] c = Unknown -> 500
    [] c = InvalidArgument -> 400
    [] c = DeadlineExceeded -> 504
    [] c = NotFound -> 404
    [] c = AlreadyExists -> 409
    [] c = PermissionDenied -> 403
    [] c = ResourceExhausted -> 429
    [] c = FailedPrecondition -> 400
    [] c = Aborted -> 409
    [] c = OutOfRange -> 400
    [] c = Unimplemented -> 501
    [] c = Internal -> 500
    [] c = Unavailable -> 503
    [] c = DataLoss -> 500
    [] c = Unauthenticated -> 401

TabulatedValues == {200, 499, 500, 400, 504, 404, 409, 403, 429, 501, 503, 401}

\* the error under inspection came straight from a constructor
FromConstructor == made.by = "constructor" /\ wraps = 0

\* the error under inspection is not nil and carries no status
NotStatus == err.kind \in {"plain", "wrap"}

AllWellFormed(ds) == \A i \in 1..Len(ds) : ds[i].wellFormed

\* the renderings of the records ds[i..], in order, inside the brackets
RECURSIVE RenderingsFrom(_, _)
RenderingsFrom(ds, i) ==
  IF i > Len(ds) THEN <<"]">>
  ELSE (IF i = 1 THEN <<>> ELSE <<" ">>) \o DetailString(ds[i])
       \o RenderingsFrom(ds, i + 1)

\* C1: Code(err) is the bound status kind for an error produced by any of
\* the 16 constructors, whatever the message and the detail list, and is
\* Unknown for every error that is not a status error.
C1_CodeOfConstructed ==
  op = "Code" =>
    /\ FromConstructor => code = BoundKind(made.fn)
    /\ NotStatus => code = Unknown

C1_Witness ==
  /\ op = "Code"
  /\ FromConstructor
  /\ made.fn = "PermDenied"
  /\ Len(made.details) = 2
  /\ code = PermissionDenied

\* C2: for every status kind, ConvHTTP of a status error of that kind gives
\* Rest.Code as tabulated, Rest.Desc the kind's canonical name and
\* Rest.Message the message the error carries.
C2_ConvHTTPTable ==
  (op = "ConvHTTP" /\ err.kind = "status" /\ err.code \in 0..16) =>
    /\ se.Rest.Code = TabulatedHTTP(err.code)
    /\ se.Rest.Desc = CodeString(err.code)
    /\ se.Rest.Message = err.msg

C2_Witness ==
  /\ op = "ConvHTTP"
  /\ err.kind = "status"
  /\ err.code = Canceled
  /\ se.Rest.Code = 499
  /\ se.Rest.Desc = <<"C", "a", "n", "c", "e", "l", "e", "d">>

\* C3 as stated: ConvHTTP of an error that is not a status error gives
\* Rest.Code 500, an empty Rest.Desc, the error's text in Rest.Message and an
\* empty Rest.Details.
C3_Original ==
  (op = "ConvHTTP" /\ NotStatus) =>
    /\ se.Rest.Code = 500
    /\ se.Rest.Desc = <<>>
    /\ se.Rest.Message = ErrorText(err)
    /\ se.Rest.Details = <<>>

\* C3 as amended: ConvHTTP of an error that is not a status error gives
\* Rest.Code 500, the error's text in Rest.Desc, an empty Rest.Message and an
\* empty Rest.Details.
C3_FallbackFillsDesc ==
  (op = "ConvHTTP" /\ NotStatus) =>
    /\ se.Rest.Code = 500
    /\ se.Rest.Desc = ErrorText(err)
    /\ se.Rest.Message = <<>>
    /\ se.Rest.Details = <<>>

C3_Witness ==
  /\ op = "ConvHTTP"
  /\ made.by = "errors.New"
  /\ wraps = 0
  /\ made.msg = <<"a", "%">>
  /\ se.Rest.Code = 500
  /\ se.Rest.Desc = <<"a", "%">>

\* C4: a constructor always returns a non-nil status error of the bound kind
\* with the supplied message; it carries all the supplied details when they
\* attach, and none of them when attaching fails or none was supplied.
C4_ConstructorResult ==
  (pc = "made" /\ FromConstructor) =>
    /\ err.kind = "status"
    /\ err.code = BoundKind(made.fn)
    /\ err.msg = made.msg
    /\ err.details = IF AllWellFormed(made.details) THEN made.details ELSE <<>>

\* C5: for an error built with N well-formed detail records, the error carries
\* them and Rest.Details holds exactly their N renderings in the order passed;
\* for N = 0 it is "[]".
C5_DetailsInOrder ==
  (op = "ConvHTTP" /\ FromConstructor /\ AllWellFormed(made.details)) =>
    /\ err.details = made.details
    /\ se.Rest.Details = <<"[">> \o RenderingsFrom(made.details, 1)
    /\ made.details = <<>> => se.Rest.Details = <<"[", "]">>

C5_Witness ==
  /\ op = "ConvHTTP"
  /\ FromConstructor
  /\ made.details = << [type |-> "BadRequest", wellFormed |-> TRUE],
                       [type |-> "RetryInfo", wellFormed |-> TRUE] >>
  /\ se.Rest.Details = <<"[", "b", ":", "1", " ", " ", "r", ":", "2", " ", "]">>

\* C6: IsValid is true for every error a constructor returns, also after a
\* failed detail attachment, and false for every plain textual error.
C6_IsValid ==
  op = "IsValid" =>
    /\ FromConstructor => valid = TRUE
    /\ (made.by = "errors.New" /\ wraps = 0) => valid = FALSE

C6_Witness ==
  /\ op = "IsValid"
  /\ FromConstructor
  /\ ~AllWellFormed(made.details)
  /\ valid = TRUE

\* C7: wrapping a status error produced by a constructor gives a plain
\* textual error: IsValid is false, Code is Unknown and ConvHTTP takes the
\* fallback with Rest.Code 500, whatever the kind of the wrapped error.
C7_WrapLosesStatus ==
  (made.by = "constructor" /\ wraps >= 1 /\ inner.kind = "status") =>
    /\ err.kind = "wrap"
    /\ op = "IsValid" => valid = FALSE
    /\ op = "Code" => code = Unknown
    /\ op = "ConvHTTP" => se.Rest.Code = 500

C7_Witness ==
  /\ made.by = "constructor"
  /\ made.fn = "NotFound"
  /\ wraps = 1
  /\ inner.kind = "status"
  /\ op = "ConvHTTP"
  /\ se.Rest.Code = 500

\* C8: String(err) is "Code = <kindName>, Message = <message>, Details =
\* <renderedDetails>" for a status error, with "[]" when it has no details,
\* and the error's own text with no prefix for any other error.
C8_String ==
  op = "String" =>
    /\ err.kind = "status" =>
         /\ str = <<"C", "o", "d", "e", " ", "=", " ">> \o CodeString(err.code)
                  \o <<",", " ", "M", "e", "s", "s", "a", "g", "e", " ", "=", " ">>
                  \o err.msg
                  \o <<",", " ", "D", "e", "t", "a", "i", "l", "s", " ", "=", " ", "[">>
                  \o RenderingsFrom(err.details, 1)
         /\ err.details = <<>> =>
              SubSeq(str, Len(str) - 1, Len(str)) = <<"[", "]">>
    /\ NotStatus => str = err.msg

C8_Witness ==
  /\ op = "String"
  /\ FromConstructor
  /\ made.fn = "InvalidArgs"
  /\ made.msg = <<"a">>
  /\ made.details = <<>>
  /\ str = <<"C", "o", "d", "e", " ", "=", " ", "I", "n", "v", "a", "l", "i",
             "d", "A", "r", "g", "u", "m", "e", "n", "t", ",", " ", "M", "e",
             "s", "s", "a", "g", "e", " ", "=", " ", "a", ",", " ", "D", "e",
             "t", "a", "i", "l", "s", " ", "=", " ", "[", "]">>

\* C9: for every text and every non-nil error e, Wrap(text, e) is a non-nil
\* error whose text is text, then ":(", then e's text, then ")".
C9_WrapText ==
  (wraps >= 1 /\ inner.kind /= "nil") =>
    /\ err.kind /= "nil"
    /\ ErrorText(err) = wrapText \o <<":", "(">> \o ErrorText(inner) \o <<")">>

C9_Witness ==
  /\ pc = "made"
  /\ wraps = 1
  /\ made.by = "constructor"
  /\ made.fn = "NotFound"
  /\ made.msg = <<"a">>
  /\ wrapText = <<"%">>
  /\ ErrorText(err) =
       <<"%", ":", "(", "r", "p", "c", " ", "e", "r", "r", "o", "r", ":", " ",
         "c", "o", "d", "e", " ", "=", " ", "N", "o", "t", "F", "o", "u", "n",
         "d", " ", "d", "e", "s", "c", " ", "=", " ", "a", ")">>

\* C10: for a status error whose code has no entry in the table ConvHTTP
\* gives Rest.Code 500; so Rest.Code is never 0 and is always one of the
\* tabulated values.
C10_UntabulatedIs500 ==
  op = "ConvHTTP" =>
    /\ (err.kind = "status" /\ err.code \notin 0..16) => se.Rest.Code = 500
    /\ se.Rest.Code /= 0
    /\ se.Rest.Code \in TabulatedValues

\* C11: for every constructor and every message, also one that contains
\* format-directive characters, the message seen through ConvHTTP's
\* Rest.Message and through String's "Message = " field is exactly the
\* message passed to the constructor.
C11_MessageVerbatim ==
  FromConstructor =>
    /\ op = "ConvHTTP" => se.Rest.Message = made.msg
    /\ op = "String" =>
         str = <<"C", "o", "d", "e", " ", "=", " ">>
               \o CodeString(BoundKind(made.fn))
               \o <<",", " ", "M", "e", "s", "s", "a", "g", "e", " ", "=", " ">>
               \o made.msg
               \o <<",", " ", "D", "e", "t", "a", "i", "l", "s", " ", "=", " ", "[">>
               \o RenderingsFrom(err.details, 1)

====
